---- MODULE Spec2Model ----
(***************************************************************************)
(* DFA_Minimizer: the validator (validar_afd) and the table-filling        *)
(* minimizer (minimizar_afd) of src/src/minimizador.                       *)
(*                                                                         *)
(* State labels are strings in the program; here a label is a positive     *)
(* integer, whose numeric order stands for the lexical order sorted() uses.*)
(* None is the integer 0.  An AFD value is a record with the five fields   *)
(* of class AFD; transicoes is the nested dict, a function from the origin *)
(* keys to functions from the symbol keys to destinations.                 *)
(***************************************************************************)
EXTENDS Integers, Sequences, FiniteSets, TLC

VARIABLES afd, pc, val, estados_alcancaveis, marked_pairs, newly_marked,
          passo, eventos, minimized_afd

vars == <<afd, pc, val, estados_alcancaveis, marked_pairs, newly_marked,
          passo, eventos, minimized_afd>>

None == 0

(* ---------------- bounds of the inputs ---------------- *)
\* most states of an input over the alphabet {a, b}
MaxEstados == 3
\* most states of an input over the alphabet {a}
MaxEstadosUnario == 4
\* most states of an input of the validator's family
MaxEstadosVal == 2
\* longest input string tried when two automata or two states are compared
MaxLen == 5

Sigma == {"a", "b"}

(* ---------------- the AFD value ---------------- *)
AFD(alfabeto, estados, inicial, finais, transicoes) ==
    [alfabeto |-> alfabeto, estados |-> estados, inicial |-> inicial,
     finais |-> finais, transicoes |-> transicoes]

\* transicoes.get(p, {}).get(simbolo)
Get(transicoes, p, simbolo) ==
    IF p \in DOMAIN transicoes /\ simbolo \in DOMAIN transicoes[p]
    THEN transicoes[p][simbolo] ELSE None

\* the order in which a set is iterated: fixed, arbitrary
RECURSIVE SeqOf(_)
SeqOf(S) == IF S = {} THEN <<>>
            ELSE LET x == CHOOSE y \in S : TRUE IN <<x>> \o SeqOf(S \ {x})

\* sorted(list(S)) for a set of labels
RECURSIVE Sorted(_)
Sorted(S) == IF S = {} THEN <<>>
             ELSE LET x == CHOOSE y \in S : \A z \in S : y <= z
                  IN <<x>> \o Sorted(S \ {x})

(* ---------------- helpers.py: reachability ---------------- *)
\* the for loop over the alphabet for one dequeued state: st = <<alcancaveis, fila>>
RECURSIVE BFSSimbolos(_, _, _, _)
BFSSimbolos(a, estado_atual, simbolos, st) ==
    IF simbolos = <<>> THEN st
    ELSE LET proximo_estado == Get(a.transicoes, estado_atual, Head(simbolos))
             novo == /\ proximo_estado # None
                     /\ proximo_estado \notin st[1]
                     /\ proximo_estado \in a.estados
         IN BFSSimbolos(a, estado_atual, Tail(simbolos),
                IF novo THEN <<st[1] \cup {proximo_estado}, Append(st[2], proximo_estado)>>
                ELSE st)

RECURSIVE BFSFila(_, _, _)
BFSFila(a, alcancaveis, fila) ==
    IF fila = <<>> THEN alcancaveis
    ELSE LET estado_atual == Head(fila)
             st == IF estado_atual \in DOMAIN a.transicoes
                   THEN BFSSimbolos(a, estado_atual, SeqOf(a.alfabeto), <<alcancaveis, Tail(fila)>>)
                   ELSE <<alcancaveis, Tail(fila)>>
         IN BFSFila(a, st[1], st[2])

\* mutant: the reachable set is not computed, every declared state is kept
EncontrarTodos(a) == a.estados

\* mutant: only the initial state is expanded
EncontrarUmPasso(a) ==
    IF a.estados = {} \/ a.inicial \notin a.estados THEN {}
    ELSE IF a.inicial \in DOMAIN a.transicoes
    THEN BFSSimbolos(a, a.inicial, SeqOf(a.alfabeto), <<{a.inicial}, <<>>>>)[1]
    ELSE {a.inicial}

\* mutant: the traversal starts from the initial state, declared or not
EncontrarSemGuarda(a) ==
    IF a.estados = {} THEN {}
    ELSE BFSFila(a, {a.inicial}, <<a.inicial>>)

EncontrarEstadosAlcancaveis(a) ==
    IF a.estados = {} \/ a.inicial \notin a.estados THEN {}
    ELSE BFSFila(a, {a.inicial}, <<a.inicial>>)

(* ---------------- validador.py ---------------- *)
\* mensagens.append(msg); erros += 1, when cond: st = <<erros, mensagens>>
Anotar(st, cond, msg) == IF cond THEN <<st[1] + 1, Append(st[2], msg)>> ELSE st

\* the inner loop of check 3: the (simbolo, destino) items of one origin
RECURSIVE ConsistenciaItens(_, _, _, _)
ConsistenciaItens(a, origem, simbolos, st) ==
    IF simbolos = <<>> THEN st
    ELSE LET simbolo == Head(simbolos)
             destino == a.transicoes[origem][simbolo]
             s1 == Anotar(st, simbolo \notin a.alfabeto,
                          <<"ERRO", "simbolo", origem, simbolo, destino>>)
             s2 == Anotar(s1, destino \notin a.estados,
                          <<"ERRO", "destino", origem, simbolo, destino>>)
         IN ConsistenciaItens(a, origem, Tail(simbolos), s2)

\* the outer loop of check 3: the origins of the transition dict
RECURSIVE ConsistenciaOrigens(_, _, _)
ConsistenciaOrigens(a, origens, st) ==
    IF origens = <<>> THEN st
    ELSE LET origem == Head(origens)
             s1 == Anotar(st, origem \notin a.estados, <<"ERRO", "origem", origem>>)
             s2 == ConsistenciaItens(a, origem, SeqOf(DOMAIN a.transicoes[origem]), s1)
         IN ConsistenciaOrigens(a, Tail(origens), s2)

\* returns <<erros_consistencia = 0, mensagens>>
VerificarConsistencia(a, mensagens) ==
    LET s1 == Anotar(<<0, mensagens>>, a.inicial \notin a.estados,
                     <<"ERRO", "inicial", a.inicial>>)
        estados_finais_invalidos == a.finais \ a.estados
        s2 == Anotar(s1, estados_finais_invalidos # {},
                     <<"ERRO", "finais", estados_finais_invalidos>>)
        s3 == ConsistenciaOrigens(a, SeqOf(DOMAIN a.transicoes), s2)
    IN <<s3[1] = 0, s3[2]>>

\* the two nested loops of _verificar_determinismo: st = <<determinismo_ok, mensagens>>
RECURSIVE DeterminismoSimbolos(_, _, _, _)
DeterminismoSimbolos(a, estado, simbolos, st) ==
    IF simbolos = <<>> THEN st
    ELSE LET simbolo == Head(simbolos)
             ausente == \/ estado \notin DOMAIN a.transicoes
                        \/ simbolo \notin DOMAIN a.transicoes[estado]
         IN DeterminismoSimbolos(a, estado, Tail(simbolos),
                IF ausente
                THEN <<FALSE, Append(st[2], <<"ERRO", "ausente", estado, simbolo>>)>>
                ELSE st)

RECURSIVE DeterminismoEstados(_, _, _)
DeterminismoEstados(a, estados, st) ==
    IF estados = <<>> THEN st
    ELSE DeterminismoEstados(a, Tail(estados),
             DeterminismoSimbolos(a, Head(estados), SeqOf(a.alfabeto), st))

\* mutant: the loop runs over the keys of the transition dict, not over the states
VerificarDeterminismoChaves(a, mensagens) ==
    DeterminismoEstados(a, SeqOf(DOMAIN a.transicoes), <<TRUE, mensagens>>)

\* returns <<determinismo_ok, mensagens>>
VerificarDeterminismo(a, mensagens) ==
    DeterminismoEstados(a, SeqOf(a.estados), <<TRUE, mensagens>>)

\* the validator's own breadth-first traversal
RECURSIVE ValSimbolos(_, _, _, _)
ValSimbolos(a, estado_atual, simbolos, st) ==
    IF simbolos = <<>> THEN st
    ELSE LET proximo_estado == Get(a.transicoes, estado_atual, Head(simbolos))
         IN ValSimbolos(a, estado_atual, Tail(simbolos),
                IF proximo_estado # None /\ proximo_estado \notin st[1]
                THEN IF proximo_estado \in a.estados
                     THEN <<st[1] \cup {proximo_estado}, Append(st[2], proximo_estado)>>
                     ELSE st
                ELSE st)

RECURSIVE ValFila(_, _, _)
ValFila(a, alcancaveis, fila) ==
    IF fila = <<>> THEN alcancaveis
    ELSE LET estado_atual == Head(fila)
             st == IF estado_atual \in DOMAIN a.transicoes
                   THEN ValSimbolos(a, estado_atual, SeqOf(a.alfabeto), <<alcancaveis, Tail(fila)>>)
                   ELSE <<alcancaveis, Tail(fila)>>
         IN ValFila(a, st[1], st[2])

\* mutant: the unreachable states are not reported
VerificarAlcancabilidadeSemAviso(a, mensagens) ==
    IF a.estados = {} THEN <<{}, mensagens>>
    ELSE IF a.inicial \notin a.estados THEN <<{}, mensagens>>
    ELSE <<ValFila(a, {a.inicial}, <<a.inicial>>), mensagens>>

\* returns <<alcancaveis, mensagens>>
VerificarAlcancabilidade(a, mensagens) ==
    IF a.estados = {} THEN <<{}, mensagens>>
    ELSE IF a.inicial \notin a.estados THEN <<{}, mensagens>>
    ELSE LET alcancaveis == ValFila(a, {a.inicial}, <<a.inicial>>)
             estados_inalcancaveis == a.estados \ alcancaveis
         IN <<alcancaveis,
              IF estados_inalcancaveis # {}
              THEN Append(mensagens, <<"AVISO", "inalcancaveis", a.inicial, estados_inalcancaveis>>)
              ELSE mensagens>>

\* Optional[Set[str]]: {} is None, {S} is the set S
Resultado(is_valido, mensagens, alcancaveis) ==
    [is_valido |-> is_valido, mensagens |-> mensagens, alcancaveis |-> alcancaveis]

\* the guard of validar_afd: an AFD object is truthy, None stands for a falsy inicial
Vazio(a) == a.estados = {} \/ a.alfabeto = {} \/ a.inicial = None

\* mutant: the result of the completeness check is not folded into is_valido
ValidarAfdIgnoraDeterminismo(a) ==
    IF Vazio(a) THEN Resultado(FALSE, <<<<"ERRO", "vazio">>>>, {})
    ELSE LET c == VerificarConsistencia(a, <<>>)
             d == VerificarDeterminismo(a, c[2])
             is_valido == IF ~c[1] THEN FALSE ELSE TRUE
         IN IF a.inicial \in a.estados
            THEN LET r == VerificarAlcancabilidade(a, d[2])
                 IN IF r[1] = {} /\ a.estados # {}
                    THEN Resultado(FALSE, Append(r[2], <<"ERRO", "sem_alcancaveis", a.inicial>>), {r[1]})
                    ELSE Resultado(is_valido, r[2], {r[1]})
            ELSE Resultado(is_valido, d[2], {})

\* mutant: a failed consistency check ends the validation
ValidarAfdParaCedo(a) ==
    IF Vazio(a) THEN Resultado(FALSE, <<<<"ERRO", "vazio">>>>, {})
    ELSE LET c == VerificarConsistencia(a, <<>>)
         IN IF ~c[1] THEN Resultado(FALSE, c[2], {})
            ELSE LET d == VerificarDeterminismo(a, c[2])
                     r == VerificarAlcancabilidade(a, d[2])
                 IN Resultado(d[1], r[2], {r[1]})

ValidarAfd(a) ==
    IF Vazio(a) THEN Resultado(FALSE, <<<<"ERRO", "vazio">>>>, {})
    ELSE LET c == VerificarConsistencia(a, <<>>)
             d == VerificarDeterminismo(a, c[2])
             is_valido == IF ~d[1] THEN FALSE ELSE IF ~c[1] THEN FALSE ELSE TRUE
         IN IF a.inicial \in a.estados
            THEN LET r == VerificarAlcancabilidade(a, d[2])
                 IN IF r[1] = {} /\ a.estados # {}
                    THEN Resultado(FALSE, Append(r[2], <<"ERRO", "sem_alcancaveis", a.inicial>>), {r[1]})
                    ELSE Resultado(is_valido, r[2], {r[1]})
            ELSE Resultado(is_valido, d[2], {})

(* ---------------- helpers.py: formatting ---------------- *)
\* sorted(...) of a set of 2-tuples of labels: lexicographic order
RECURSIVE SortedTuples(_)
SortedTuples(T) ==
    IF T = {} THEN <<>>
    ELSE LET x == CHOOSE y \in T : \A z \in T :
                      \/ y[1] < z[1]
                      \/ (y[1] = z[1] /\ y[2] <= z[2])
         IN <<x>> \o SortedTuples(T \ {x})

\* tuple(sorted(list(p))) for a frozenset p of two labels
TupleOf(p) == LET lo == CHOOSE x \in p : \A y \in p : x <= y
                  hi == CHOOSE x \in p : \A y \in p : y <= x
              IN <<lo, hi>>

\* the text of the table: its title line and the sorted pairs (<<>> prints "Nenhum")
FormatarTabelaMarcacao(marked, passo_num) ==
    [titulo |-> IF passo_num = 0 THEN "Passo 0: Marcacao inicial" ELSE "Estado da Tabela apos Passo",
     passo  |-> passo_num,
     pares  |-> SortedTuples({TupleOf(p) : p \in marked})]

FormatarNovosMarcados(passo_num, newly) ==
    [titulo |-> "Novos pares marcados",
     passo  |-> passo_num,
     pares  |-> SortedTuples({TupleOf(p) : p \in newly})]

(* ---------------- algoritmo.py: DSU ---------------- *)
DSUInit(items) == [item \in items |-> item]

\* find with path compression: returns the root and the compressed parent map
RECURSIVE DSUFind(_, _)
DSUFind(parent, item) ==
    IF parent[item] = item THEN [root |-> item, parent |-> parent]
    ELSE LET r == DSUFind(parent, parent[item])
         IN [root |-> r.root, parent |-> [r.parent EXCEPT ![item] = r.root]]

DSUUnion(parent, item1, item2) ==
    LET f1 == DSUFind(parent, item1)
        f2 == DSUFind(f1.parent, item2)
    IN IF f1.root # f2.root THEN [f2.parent EXCEPT ![f1.root] = f2.root]
       ELSE f2.parent

(* ---------------- algoritmo.py: minimizar_afd ---------------- *)
\* list(itertools.combinations(lista, 2))
RECURSIVE Combinations2(_)
Combinations2(lista) ==
    IF Len(lista) < 2 THEN <<>>
    ELSE [j \in 1..(Len(lista) - 1) |-> <<Head(lista), lista[j + 1]>>]
         \o Combinations2(Tail(lista))

StatePairs(R) == Combinations2(Sorted(R))

FinaisAlcancaveis(a, R) == a.finais \cap R
NonFinaisAlcancaveis(a, R) == R \ FinaisAlcancaveis(a, R)

\* mutant: every pair of distinct reachable states is marked at the start
MarcacaoInicialTodos(a, R) == {{p, q} : <<p, q>> \in {x \in R \X R : x[1] # x[2]}}

\* mutant: the initial marking marks nothing
MarcacaoInicialVazia(a, R) == {}

\* 1. Inicializacao
MarcacaoInicial(a, R) ==
    {{p, q} : <<p, q>> \in {x \in FinaisAlcancaveis(a, R) \X NonFinaisAlcancaveis(a, R) : x[1] # x[2]}}

\* mutant: every symbol, not some symbol, must lead to a marked pair
DistingueTodos(a, p, q, marked) ==
    \A simbolo \in a.alfabeto :
        LET next_p == Get(a.transicoes, p, simbolo)
            next_q == Get(a.transicoes, q, simbolo)
        IN /\ ~(next_p = None \/ next_q = None)
           /\ next_p # next_q
           /\ {next_p, next_q} \in marked

\* mutant: distinct targets mark the pair, marked or not
DistingueSemMarca(a, p, q, marked) ==
    \E simbolo \in a.alfabeto :
        LET next_p == Get(a.transicoes, p, simbolo)
            next_q == Get(a.transicoes, q, simbolo)
        IN /\ ~(next_p = None \/ next_q = None)
           /\ next_p # next_q

\* mutant: a symbol defined on one member only marks the pair
DistingueAusente(a, p, q, marked) ==
    \E simbolo \in a.alfabeto :
        LET next_p == Get(a.transicoes, p, simbolo)
            next_q == Get(a.transicoes, q, simbolo)
        IN IF next_p = None \/ next_q = None THEN next_p # next_q
           ELSE next_p # next_q /\ {next_p, next_q} \in marked

\* does some symbol send the pair to a pair already marked
Distingue(a, p, q, marked) ==
    \E simbolo \in a.alfabeto :
        LET next_p == Get(a.transicoes, p, simbolo)
            next_q == Get(a.transicoes, q, simbolo)
        IN /\ ~(next_p = None \/ next_q = None)
           /\ next_p # next_q
           /\ {next_p, next_q} \in marked

\* mutant: the pass stops at the first pair it marks
PassadaUma(a, R, marked) ==
    LET state_pairs == StatePairs(R)
        novos == {j \in 1..Len(state_pairs) :
                     /\ {state_pairs[j][1], state_pairs[j][2]} \notin marked
                     /\ Distingue(a, state_pairs[j][1], state_pairs[j][2], marked)}
    IN {{state_pairs[i][1], state_pairs[i][2]} :
            i \in {j \in novos : \A k \in novos : j <= k}}

\* mutant: no pass marks anything
PassadaVazia(a, R, marked) == {}

\* one pass of the while loop: the set newly_marked it builds
Passada(a, R, marked) ==
    LET state_pairs == StatePairs(R)
    IN {{state_pairs[i][1], state_pairs[i][2]} :
            i \in {j \in 1..Len(state_pairs) :
                     /\ {state_pairs[j][1], state_pairs[j][2]} \notin marked
                     /\ Distingue(a, state_pairs[j][1], state_pairs[j][2], marked)}}

\* the union loop over state_pairs
RECURSIVE UnirNaoMarcados(_, _, _)
UnirNaoMarcados(parent, state_pairs, marked) ==
    IF state_pairs = <<>> THEN parent
    ELSE LET p == Head(state_pairs)[1]
             q == Head(state_pairs)[2]
         IN UnirNaoMarcados(IF {p, q} \notin marked THEN DSUUnion(parent, p, q) ELSE parent,
                            Tail(state_pairs), marked)

\* mutant: every state is a class, and so is every unmarked pair
ClassesPorPares(R, marked) ==
    UNION {{{p, q} : q \in {x \in R : x = p \/ {p, x} \notin marked}} : p \in R}

\* mutant: the states are grouped by parent[estado], without find
ClassesPorParent(R, marked) ==
    LET parent == UnirNaoMarcados(DSUInit(R), StatePairs(R), marked)
    IN {{estado \in R : parent[estado] = raiz} : raiz \in {parent[estado] : estado \in R}}

\* equivalence_classes grouped by dsu.find, as min_estados_fs
ClassesDeEquivalencia(R, marked) ==
    LET parent == UnirNaoMarcados(DSUInit(R), StatePairs(R), marked)
    IN {{estado \in R : DSUFind(parent, estado).root = raiz} :
            raiz \in {DSUFind(parent, estado).root : estado \in R}}

\* state_to_class_fs[orig]
StateToClass(min_estados_fs, orig) == CHOOSE fs \in min_estados_fs : orig \in fs

\* the representatives next(iter(fs_class)) can yield: any member of each class
Representantes(min_estados_fs) ==
    {rep \in [min_estados_fs -> UNION min_estados_fs] : \A fs \in min_estados_fs : rep[fs] \in fs}

\* mutant: a transition leads to the class of the representative, not of its target
ConstruirAfdLaco(a, R, min_estados_fs, rep) ==
    LET orig_dest(fs, simbolo) == Get(a.transicoes, rep[fs], simbolo)
        tem(fs, simbolo) == orig_dest(fs, simbolo) # None /\ orig_dest(fs, simbolo) \in R
        min_transicoes ==
            [fs \in {c \in min_estados_fs : \E simbolo \in a.alfabeto : tem(c, simbolo)} |->
                [simbolo \in {x \in a.alfabeto : tem(fs, x)} |->
                    StateToClass(min_estados_fs, rep[fs])]]
    IN AFD(a.alfabeto, min_estados_fs, StateToClass(min_estados_fs, a.inicial),
           {fs \in min_estados_fs : \E e \in fs : e \in FinaisAlcancaveis(a, R)},
           min_transicoes)

\* the minimized AFD, given the representative picked for each class
ConstruirAfd(a, R, min_estados_fs, rep) ==
    LET orig_dest(fs, simbolo) == Get(a.transicoes, rep[fs], simbolo)
        tem(fs, simbolo) == orig_dest(fs, simbolo) # None /\ orig_dest(fs, simbolo) \in R
        min_transicoes ==
            [fs \in {c \in min_estados_fs : \E simbolo \in a.alfabeto : tem(c, simbolo)} |->
                [simbolo \in {x \in a.alfabeto : tem(fs, x)} |->
                    StateToClass(min_estados_fs, orig_dest(fs, simbolo))]]
    IN AFD(a.alfabeto, min_estados_fs, StateToClass(min_estados_fs, a.inicial),
           {fs \in min_estados_fs : \E e \in fs : e \in FinaisAlcancaveis(a, R)},
           min_transicoes)

(* ---------------- the inputs ---------------- *)
\* the inner dicts: the functions from some of the symbols to a destination
Dicts(simbolos, destinos) == UNION {[X -> destinos] : X \in SUBSET simbolos}

\* consistent automata over the states 1..n with initial state 1: every
\* reference is declared; any set of accepting states; unreachable states or not
Consistentes(alfabeto, n, dicts) ==
    {AFD(alfabeto, 1..n, 1, x[1], x[2]) : x \in (SUBSET (1..n)) \X [1..n -> dicts]}

\* complete automata over {a, b}
EntradasBinarias == UNION {Consistentes(Sigma, n, [Sigma -> 1..n]) : n \in 1..MaxEstados}
\* complete and incomplete automata over {a}
EntradasUnarias == UNION {Consistentes({"a"}, n, Dicts({"a"}, 1..n)) : n \in 1..MaxEstadosUnario}

\* any declaration over the labels U and the given symbols: undeclared
\* references, empty sets and a missing initial state included
EntradasLivres(simbolos, U) ==
    {AFD(x[1], x[2], x[3], x[4], x[5]) :
        x \in (SUBSET simbolos) \X (SUBSET U) \X (U \cup {None}) \X (SUBSET U)
              \X (UNION {[K -> Dicts(simbolos, U)] : K \in SUBSET U})}

\* the example of algoritmo.py, with A..F as 1..6
CenarioA ==
    AFD({"a", "b"}, 1..6, 1, {3, 4},
        [e \in 1..6 |->
            CASE e = 1 -> [simbolo \in {"a", "b"} |-> IF simbolo = "a" THEN 2 ELSE 6]
              [] e = 2 -> [simbolo \in {"a", "b"} |-> IF simbolo = "a" THEN 5 ELSE 3]
              [] e = 3 -> [simbolo \in {"a", "b"} |-> IF simbolo = "a" THEN 5 ELSE 3]
              [] e = 4 -> [simbolo \in {"a", "b"} |-> IF simbolo = "a" THEN 5 ELSE 4]
              [] e = 5 -> [simbolo \in {"a", "b"} |-> IF simbolo = "a" THEN 5 ELSE 6]
              [] e = 6 -> [simbolo \in {"a", "b"} |-> 6]])

Entradas == EntradasBinarias \cup EntradasUnarias \cup {CenarioA}
                \cup EntradasLivres({"a"}, 1..MaxEstadosVal)

\* the validator's family
EntradasVal == EntradasLivres(Sigma, 1..MaxEstadosVal)

(* ---------------- events ---------------- *)
Info(message) == [type |-> "info", message |-> message]
Erro(message) == [type |-> "error", message |-> message]
StepTable(pass, data) == [type |-> "step_table", pass |-> pass, data |-> data]
StepUpdate(pass, data) == [type |-> "step_update", pass |-> pass, data |-> data]
Result(data) == [type |-> "result", data |-> data]

SemAfd == AFD({}, {}, None, {}, <<>>)
SemResultado == Resultado(FALSE, <<>>, {})

(* ---------------- the state machine ---------------- *)
InitCom(entradas) ==
    /\ afd \in entradas
    /\ pc = "inicio"
    /\ val = SemResultado
    /\ estados_alcancaveis = {}
    /\ marked_pairs = {}
    /\ newly_marked = {}
    /\ passo = 0
    /\ eventos = <<>>
    /\ minimized_afd = SemAfd

Init == InitCom(Entradas)

InitVal == InitCom(EntradasVal)

minVars == <<estados_alcancaveis, marked_pairs, newly_marked, passo, eventos, minimized_afd>>

\* validar_afd(afd), called before the generator is created
Validar ==
    /\ pc = "inicio"
    /\ val' = ValidarAfd(afd)
    /\ pc' = "validado"
    /\ UNCHANGED <<afd, minVars>>

\* first next(): runs to the yield of line 47
Comecar ==
    /\ pc = "validado"
    /\ eventos' = Append(eventos, Info(<<"Encontrando estados alcancaveis">>))
    /\ pc' = "y47"
    /\ UNCHANGED <<afd, val, estados_alcancaveis, marked_pairs, newly_marked, passo, minimized_afd>>

\* mutant: the first guard yields its error and the body goes on
AlcancarSemReturn ==
    /\ pc = "y47"
    /\ LET R == EncontrarEstadosAlcancaveis(afd)
       IN /\ estados_alcancaveis' = R
          /\ eventos' = Append(eventos,
                IF R = {} THEN Erro(<<"Nenhum estado alcancavel encontrado">>)
                ELSE Info(<<"Trabalhando com", Cardinality(R), Sorted(R)>>))
          /\ pc' = "y57"
    /\ UNCHANGED <<afd, val, marked_pairs, newly_marked, passo, minimized_afd>>

\* lines 48-57: the reachable set and the two guards
Alcancar ==
    /\ pc = "y47"
    /\ LET R == EncontrarEstadosAlcancaveis(afd)
       IN /\ estados_alcancaveis' = R
          /\ IF R = {}
             THEN /\ eventos' = Append(eventos, Erro(<<"Nenhum estado alcancavel encontrado">>))
                  /\ pc' = "y51"
             ELSE IF afd.inicial \notin R
             THEN /\ eventos' = Append(eventos, Erro(<<"Estado inicial nao e alcancavel", afd.inicial>>))
                  /\ pc' = "y54"
             ELSE /\ eventos' = Append(eventos, Info(<<"Trabalhando com", Cardinality(R), Sorted(R)>>))
                  /\ pc' = "y57"
    /\ UNCHANGED <<afd, val, marked_pairs, newly_marked, passo, minimized_afd>>

\* the texts str(S) can give for a set S of labels: its members in any order
Ordens(S) ==
    {ordem \in [1..Cardinality(S) -> S] :
        \A i \in 1..Cardinality(S) : \A j \in 1..Cardinality(S) : i # j => ordem[i] # ordem[j]}

\* lines 58-68: the optional note on ignored states, then the banner
\* (the message prints the set estados_originais - estados_alcancaveis itself)
Ignorados ==
    /\ pc = "y57"
    /\ Cardinality(estados_alcancaveis) < Cardinality(afd.estados)
    /\ \E ordem \in Ordens(afd.estados \ estados_alcancaveis) :
          eventos' = Append(eventos, Info(<<"Estados inalcancaveis ignorados", ordem>>))
    /\ pc' = "y59"
    /\ UNCHANGED <<afd, val, estados_alcancaveis, marked_pairs, newly_marked, passo, minimized_afd>>

Preparar ==
    /\ \/ pc = "y59"
       \/ pc = "y57" /\ ~(Cardinality(estados_alcancaveis) < Cardinality(afd.estados))
    /\ marked_pairs' = {}
    /\ eventos' = Append(eventos, Info(<<"Minimizacao Passo-a-Passo">>))
    /\ pc' = "y68"
    /\ UNCHANGED <<afd, val, estados_alcancaveis, newly_marked, passo, minimized_afd>>

\* lines 71-76: the initial marking and the table of pass 0
Inicializar ==
    /\ pc = "y68"
    /\ marked_pairs' = marked_pairs \cup MarcacaoInicial(afd, estados_alcancaveis)
    /\ eventos' = Append(eventos, StepTable(0, FormatarTabelaMarcacao(marked_pairs', 0)))
    /\ pc' = "y76"
    /\ UNCHANGED <<afd, val, estados_alcancaveis, newly_marked, passo, minimized_afd>>

\* lines 79-101: one pass of the while loop, up to its yield
Passar ==
    /\ pc \in {"y76", "y105"}
    /\ passo' = IF pc = "y76" THEN 1 ELSE passo + 1
    /\ newly_marked' = Passada(afd, estados_alcancaveis, marked_pairs)
    /\ IF newly_marked' = {}
       THEN /\ eventos' = Append(eventos, Info(<<"Nenhuma nova marcacao", passo'>>))
            /\ pc' = "y98"
       ELSE /\ eventos' = Append(eventos, StepUpdate(passo', FormatarNovosMarcados(passo', newly_marked')))
            /\ pc' = "y101"
    /\ UNCHANGED <<afd, val, estados_alcancaveis, marked_pairs, minimized_afd>>

\* mutant: the update replaces the marked set by the pairs of the pass
AtualizarSubstitui ==
    /\ pc = "y101"
    /\ marked_pairs' = newly_marked
    /\ eventos' = Append(eventos, StepTable(passo, FormatarTabelaMarcacao(marked_pairs', passo)))
    /\ pc' = "y105"
    /\ UNCHANGED <<afd, val, estados_alcancaveis, newly_marked, passo, minimized_afd>>

\* mutant: the table of the pass is formatted before the update
AtualizarTabelaVelha ==
    /\ pc = "y101"
    /\ marked_pairs' = marked_pairs \cup newly_marked
    /\ eventos' = Append(eventos, StepTable(passo, FormatarTabelaMarcacao(marked_pairs, passo)))
    /\ pc' = "y105"
    /\ UNCHANGED <<afd, val, estados_alcancaveis, newly_marked, passo, minimized_afd>>

\* lines 103-105: the update of the marked set and the table of the pass
Atualizar ==
    /\ pc = "y101"
    /\ marked_pairs' = marked_pairs \cup newly_marked
    /\ eventos' = Append(eventos, StepTable(passo, FormatarTabelaMarcacao(marked_pairs', passo)))
    /\ pc' = "y105"
    /\ UNCHANGED <<afd, val, estados_alcancaveis, newly_marked, passo, minimized_afd>>

\* line 99 (break) and line 108
Concluir ==
    /\ pc = "y98"
    /\ eventos' = Append(eventos, Info(<<"----------------------------------">>))
    /\ pc' = "y108"
    /\ UNCHANGED <<afd, val, estados_alcancaveis, marked_pairs, newly_marked, passo, minimized_afd>>

\* line 109
Anunciar ==
    /\ pc = "y108"
    /\ eventos' = Append(eventos, Info(<<"Construindo AFD minimizado">>))
    /\ pc' = "y109"
    /\ UNCHANGED <<afd, val, estados_alcancaveis, marked_pairs, newly_marked, passo, minimized_afd>>

\* lines 112-141: the classes and the new automaton
Construir ==
    /\ pc = "y109"
    /\ LET min_estados_fs == ClassesDeEquivalencia(estados_alcancaveis, marked_pairs)
       IN IF min_estados_fs = {}
          THEN /\ eventos' = Append(eventos, Erro(<<"Nenhuma classe de equivalencia encontrada">>))
               /\ pc' = "y123"
               /\ UNCHANGED minimized_afd
          ELSE /\ \E rep \in Representantes(min_estados_fs) :
                     minimized_afd' = ConstruirAfd(afd, estados_alcancaveis, min_estados_fs, rep)
               /\ eventos' = Append(eventos, Info(<<"Construcao do AFD minimizado concluida">>))
               /\ pc' = "y141"
    /\ UNCHANGED <<afd, val, estados_alcancaveis, marked_pairs, newly_marked, passo>>

\* line 142
Entregar ==
    /\ pc = "y141"
    /\ eventos' = Append(eventos, Result(minimized_afd))
    /\ pc' = "y142"
    /\ UNCHANGED <<afd, val, estados_alcancaveis, marked_pairs, newly_marked, passo, minimized_afd>>

\* the return after an error, or the end of the body after the result
Terminar ==
    /\ pc \in {"y51", "y54", "y123", "y142"}
    /\ pc' = IF pc = "y142" THEN "fim" ELSE "abortado"
    /\ UNCHANGED <<afd, val, minVars>>

Next ==
    \/ Validar
    \/ Comecar
    \/ Alcancar
    \/ Ignorados
    \/ Preparar
    \/ Inicializar
    \/ Passar
    \/ Atualizar
    \/ Concluir
    \/ Anunciar
    \/ Construir
    \/ Entregar
    \/ Terminar

Spec == Init /\ [][Next]_vars

\* the validator alone, on its own family of inputs
NextVal == Validar

SpecVal == InitVal /\ [][NextVal]_vars

(* ================= properties ================= *)
\* the result event has just been yielded
ResultadoEntregue == pc = "y142"

\* the input is consistent and complete, stated on the value itself
Consistente(a) ==
    /\ a.inicial \in a.estados
    /\ a.finais \subseteq a.estados
    /\ \A origem \in DOMAIN a.transicoes :
          /\ origem \in a.estados
          /\ \A simbolo \in DOMAIN a.transicoes[origem] :
                simbolo \in a.alfabeto /\ a.transicoes[origem][simbolo] \in a.estados

Completo(a) ==
    \A estado \in a.estados : \A simbolo \in a.alfabeto :
        estado \in DOMAIN a.transicoes /\ simbolo \in DOMAIN a.transicoes[estado]

EntradaValida(a) == ~Vazio(a) /\ Consistente(a) /\ Completo(a)

\* the strings over an alphabet, up to MaxLen symbols
Palavras(alfabeto) == UNION {[1..k -> alfabeto] : k \in 0..MaxLen}

\* the states an automaton can be in after one symbol, from the states Q
Suc(a, Q, simbolo) ==
    {a.transicoes[q][simbolo] :
        q \in {x \in Q : x \in DOMAIN a.transicoes /\ simbolo \in DOMAIN a.transicoes[x]}}

\* the state reached from q by the string w: {} when a transition is missing
RECURSIVE Executar(_, _, _)
Executar(a, Q, w) ==
    IF w = <<>> THEN Q ELSE Executar(a, Suc(a, Q, Head(w)), Tail(w))

AceitaDe(a, q, w) == Executar(a, {q}, w) \cap a.finais # {}
Aceita(a, w) == AceitaDe(a, a.inicial, w)

\* the least set holding Q and closed under the transitions on alphabet symbols
RECURSIVE Fecho(_, _)
Fecho(a, Q) ==
    LET N == Q \cup UNION {Suc(a, Q, simbolo) : simbolo \in a.alfabeto}
    IN IF N = Q THEN Q ELSE Fecho(a, N)

Distinguiveis(a, p, q) == \E w \in Palavras(a.alfabeto) : AceitaDe(a, p, w) # AceitaDe(a, q, w)

\* C1: for a valid input, the minimized automaton accepts exactly the strings
\* (up to MaxLen symbols) the original accepts, each run from its own initial state
C1_MesmaLinguagem ==
    (ResultadoEntregue /\ EntradaValida(afd)) =>
        \A w \in Palavras(afd.alfabeto) : Aceita(minimized_afd, w) <=> Aceita(afd, w)

\* a valid input with two equivalent reachable states has been minimized, and its
\* language has both accepted and rejected strings
C1_Witness ==
    /\ ResultadoEntregue /\ EntradaValida(afd)
    /\ Cardinality(minimized_afd.estados) < Cardinality(estados_alcancaveis)
    /\ Cardinality(minimized_afd.estados) >= 2
    /\ \E w \in Palavras(afd.alfabeto) : Len(w) >= 2 /\ Aceita(minimized_afd, w)

\* the complete automata with exactly n >= 1 states over the alphabet (initial
\* state 1: an automaton has an initial state, so none has no state)
Candidatos(alfabeto, n) ==
    IF n < 1 THEN {}
    ELSE {AFD(alfabeto, 1..n, 1, x[1], x[2]) :
            x \in (SUBSET (1..n)) \X [1..n -> [alfabeto -> 1..n]]}

\* C2: for a valid input, any two distinct states of the result are told apart by
\* some string, and no complete automaton with one state fewer accepts the same strings
C2_Minimo ==
    (ResultadoEntregue /\ EntradaValida(afd)) =>
        /\ \A c1 \in minimized_afd.estados : \A c2 \in minimized_afd.estados :
              c1 # c2 => Distinguiveis(minimized_afd, c1, c2)
        /\ \A m \in Candidatos(afd.alfabeto, Cardinality(minimized_afd.estados) - 1) :
              \E w \in Palavras(afd.alfabeto) : Aceita(m, w) # Aceita(minimized_afd, w)

\* a valid input with equivalent states was reduced to at least three classes
C2_Witness ==
    /\ ResultadoEntregue /\ EntradaValida(afd)
    /\ Cardinality(minimized_afd.estados) >= 3
    /\ Cardinality(minimized_afd.estados) < Cardinality(estados_alcancaveis)

\* the input is already minimal: valid, every state reachable, every two told apart
JaMinimo(a) ==
    /\ EntradaValida(a)
    /\ Fecho(a, {a.inicial}) = a.estados
    /\ \A p \in a.estados : \A q \in a.estados : p # q => Distinguiveis(a, p, q)

\* C3: minimizing an already-minimal automaton gives the same automaton with each
\* state q renamed {q}
C3_Isomorfo ==
    (ResultadoEntregue /\ JaMinimo(afd)) =>
        /\ Cardinality(minimized_afd.estados) = Cardinality(afd.estados)
        /\ minimized_afd.estados = {{q} : q \in afd.estados}
        /\ minimized_afd.inicial = {afd.inicial}
        /\ minimized_afd.finais = {{q} : q \in afd.finais}
        /\ minimized_afd.alfabeto = afd.alfabeto
        /\ DOMAIN minimized_afd.transicoes = {{q} : q \in afd.estados}
        /\ \A q \in afd.estados :
              /\ DOMAIN minimized_afd.transicoes[{q}] = afd.alfabeto
              /\ \A simbolo \in afd.alfabeto :
                    minimized_afd.transicoes[{q}][simbolo] = {afd.transicoes[q][simbolo]}

\* an already-minimal automaton of three states over two symbols was minimized
C3_Witness ==
    /\ ResultadoEntregue /\ JaMinimo(afd)
    /\ Cardinality(afd.estados) = 3 /\ afd.alfabeto = Sigma
    /\ passo >= 2

\* two reachable states ended in the same class of the result
MesmaClasse(p, q) ==
    StateToClass(minimized_afd.estados, p) = StateToClass(minimized_afd.estados, q)

ParesAlcancaveis == {x \in estados_alcancaveis \X estados_alcancaveis : x[1] # x[2]}

\* C4 as stated: on every input that yields a result, two reachable states are in
\* the same class exactly when their pair is unmarked at the fixed point
C4_Original ==
    ResultadoEntregue =>
        \A x \in ParesAlcancaveis : MesmaClasse(x[1], x[2]) <=> {x[1], x[2]} \notin marked_pairs

\* C4, amended: on every valid input, two reachable states are in the same class
\* exactly when their pair is unmarked at the fixed point
C4_MesmaClasseSseNaoMarcado ==
    (ResultadoEntregue /\ EntradaValida(afd)) =>
        \A x \in ParesAlcancaveis : MesmaClasse(x[1], x[2]) <=> {x[1], x[2]} \notin marked_pairs

\* a valid input in which a pair was marked in a pass of the loop, another pair
\* stayed unmarked, and a class of three states came out
C4_Witness ==
    /\ ResultadoEntregue /\ EntradaValida(afd)
    /\ passo >= 2
    /\ \E x \in ParesAlcancaveis : {x[1], x[2]} \notin marked_pairs
    /\ \E c \in minimized_afd.estados : Cardinality(c) >= 2

\* C5 as stated: on every input that yields a result, every state of the result is
\* reachable from the result's initial state by the result's transitions
C5_Original ==
    ResultadoEntregue =>
        Fecho(minimized_afd, {minimized_afd.inicial}) = minimized_afd.estados

\* C5, amended: on every valid input, every state of the result is reachable from
\* the result's initial state by the result's transitions
C5_TodosAlcancaveis ==
    (ResultadoEntregue /\ EntradaValida(afd)) =>
        Fecho(minimized_afd, {minimized_afd.inicial}) = minimized_afd.estados

\* a valid input with an unreachable state gave a result of several classes
C5_Witness ==
    /\ ResultadoEntregue /\ EntradaValida(afd)
    /\ estados_alcancaveis # afd.estados
    /\ Cardinality(minimized_afd.estados) >= 2

LoopEncerrado == pc = "y98"

\* C7 as stated: the loop ends in at most |R| - 1 passes on every input
C7_Original ==
    LoopEncerrado => passo <= Cardinality(estados_alcancaveis) - 1

\* C7, amended: on every valid input the loop ends in at most |R| - 1 passes, and
\* in one pass when |R| = 1
C7_Passos ==
    (LoopEncerrado /\ EntradaValida(afd)) =>
        passo <= (IF Cardinality(estados_alcancaveis) >= 2
                  THEN Cardinality(estados_alcancaveis) - 1 ELSE 1)

\* a valid input on which the loop took exactly |R| - 1 = 3 passes
C7_Witness ==
    /\ LoopEncerrado /\ EntradaValida(afd)
    /\ Cardinality(estados_alcancaveis) = 4
    /\ passo = 3

(* ---------------- the validator's claims ---------------- *)
Validado == pc = "validado"

Mensagens == {val.mensagens[i] : i \in 1..Len(val.mensagens)}
TemErro == \E m \in Mensagens : m[1] = "ERRO"
TemAviso == \E m \in Mensagens : m[1] = "AVISO"

\* the least set holding the initial state and closed under the transitions on
\* alphabet symbols that lead to declared states
RECURSIVE FechoDeclarado(_, _)
FechoDeclarado(a, Q) ==
    LET N == Q \cup (a.estados \cap UNION {Suc(a, Q, simbolo) : simbolo \in a.alfabeto})
    IN IF N = Q THEN Q ELSE FechoDeclarado(a, N)

Alcance(a) == FechoDeclarado(a, {a.inicial})

\* C8: is_valid is true exactly when no ERRO message was produced; the third
\* result is None exactly when the guard fired or the initial state is undeclared,
\* and otherwise it is the reachable set
C8_ResultadoDoValidador ==
    Validado =>
        /\ val.is_valido <=> ~TemErro
        /\ val.alcancaveis = {} <=> (Vazio(afd) \/ afd.inicial \notin afd.estados)
        /\ val.alcancaveis # {} => val.alcancaveis = {Alcance(afd)}

\* an input past the guard with an error, a warning and a reachable set
C8_Witness ==
    /\ Validado /\ ~Vazio(afd)
    /\ ~val.is_valido /\ TemErro /\ TemAviso
    /\ val.alcancaveis = {{afd.inicial}}

\* the (state, symbol) pairs of states x alphabet with no transition
Ausentes(a) ==
    {x \in a.estados \X a.alfabeto : Get(a.transicoes, x[1], x[2]) = None}

\* how many messages report the missing transition of (estado, simbolo)
NumAusente(estado, simbolo) ==
    Cardinality({i \in 1..Len(val.mensagens) :
        /\ val.mensagens[i][2] = "ausente"
        /\ val.mensagens[i][3] = estado
        /\ val.mensagens[i][4] = simbolo})

\* C9: past the guard, each missing (state, symbol) pair gets exactly one
\* incompleteness error, no other pair gets one, and one missing pair makes the
\* input invalid
C9_Incompleto ==
    (Validado /\ ~Vazio(afd)) =>
        /\ \A x \in Ausentes(afd) : NumAusente(x[1], x[2]) = 1
        /\ \A i \in 1..Len(val.mensagens) :
              val.mensagens[i][2] = "ausente" =>
                  /\ val.mensagens[i][1] = "ERRO"
                  /\ <<val.mensagens[i][3], val.mensagens[i][4]>> \in Ausentes(afd)
        /\ Ausentes(afd) # {} => ~val.is_valido

\* the incomplete example of validador.py, with S, A as 1, 2
ExemploIncompleto ==
    AFD({"a", "b"}, {1, 2}, 1, {2}, [e \in {1} |-> [simbolo \in {"a"} |-> 2]])

\* the incomplete example was validated: three pairs are missing, nothing else is wrong
C9_Witness ==
    /\ Validado /\ afd = ExemploIncompleto
    /\ Cardinality(Ausentes(afd)) = 3
    /\ Len(val.mensagens) = 3
    /\ ~val.is_valido

\* C10: a consistent and complete input with an unreachable state is valid, with
\* a warning and no error, and the classes of the result cover exactly the
\* reachable set
C10_Inalcancavel ==
    (EntradaValida(afd) /\ Alcance(afd) # afd.estados) =>
        /\ pc # "inicio" => (val.is_valido /\ TemAviso /\ ~TemErro)
        /\ ResultadoEntregue =>
              /\ UNION minimized_afd.estados = Alcance(afd)
              /\ \A c \in minimized_afd.estados : c \cap (afd.estados \ Alcance(afd)) = {}

\* the example of validador.py with an unreachable state, with q0, q1, q2 as 1, 2, 3
ExemploInalcancavel ==
    AFD({"a"}, {1, 2, 3}, 1, {2},
        [e \in {1, 2, 3} |-> [simbolo \in {"a"} |-> CASE e = 1 -> 2 [] e = 2 -> 1 [] e = 3 -> 3]])

\* that example was validated and minimized
C10_Witness ==
    /\ ResultadoEntregue /\ afd = ExemploInalcancavel
    /\ val.is_valido /\ TemAviso
    /\ minimized_afd.estados = {{1}, {2}}

(* ---------------- the event sequence ---------------- *)
Terminal(e) == e.type = "result" \/ e.type = "error"
Terminais == {i \in 1..Len(eventos) : Terminal(eventos[i])}
Encerrado == pc \in {"fim", "abortado"}

\* C11: on every input, consistent or not, the events of a finished run hold
\* exactly one terminal event (result or error) and it is the last one; at no
\* point of a run is there a second terminal event or an event after one, so an
\* error is never followed by a result
C11_UmTerminal ==
    /\ Cardinality(Terminais) <= 1
    /\ \A i \in Terminais : i = Len(eventos)
    /\ Encerrado => Cardinality(Terminais) = 1
    /\ pc = "abortado" => eventos[Len(eventos)].type = "error"
    /\ pc = "fim" => eventos[Len(eventos)].type = "result"

\* an incomplete and inconsistent input ran to its result: a state has no
\* transition and a destination is undeclared
C11_Witness ==
    /\ pc = "fim"
    /\ ~Consistente(afd) /\ ~Completo(afd)
    /\ Cardinality(Terminais) = 1

\* the reachable set is empty: no declared state, or an undeclared initial state
SemAlcancaveis(a) == a.estados = {} \/ a.inicial \notin a.estados

\* C12: when the reachable set is empty, the run is the first info event, then
\* an error event, then the return: no step_table, step_update or result event
C12_ErroImediato ==
    SemAlcancaveis(afd) =>
        /\ pc \in {"inicio", "validado", "y47", "y51", "abortado"}
        /\ pc \in {"inicio", "validado"} => eventos = <<>>
        /\ pc = "y47" => (Len(eventos) = 1 /\ eventos[1].type = "info")
        /\ pc \in {"y51", "abortado"} =>
              /\ Len(eventos) = 2
              /\ eventos[1].type = "info"
              /\ eventos[2].type = "error"
              /\ estados_alcancaveis = {}

\* a run stopped on an input whose initial state is not among its declared states
C12_Witness ==
    /\ pc = "abortado"
    /\ afd.estados # {} /\ afd.inicial # None /\ afd.inicial \notin afd.estados
    /\ Len(eventos) = 2

(* ---------------- the full report of the validator ---------------- *)
\* the diagnostics the consistency check owes for the automaton a
DiagConsistencia(a) ==
    (IF a.inicial \notin a.estados THEN {<<"ERRO", "inicial", a.inicial>>} ELSE {})
    \cup (IF a.finais \ a.estados # {} THEN {<<"ERRO", "finais", a.finais \ a.estados>>} ELSE {})
    \cup {<<"ERRO", "origem", origem>> : origem \in (DOMAIN a.transicoes) \ a.estados}
    \cup UNION {{<<"ERRO", "simbolo", origem, simbolo, a.transicoes[origem][simbolo]>> :
                    simbolo \in (DOMAIN a.transicoes[origem]) \ a.alfabeto} :
                origem \in DOMAIN a.transicoes}
    \cup UNION {{<<"ERRO", "destino", origem, simbolo, a.transicoes[origem][simbolo]>> :
                    simbolo \in {x \in DOMAIN a.transicoes[origem] :
                                    a.transicoes[origem][x] \notin a.estados}} :
                origem \in DOMAIN a.transicoes}

\* the diagnostics the completeness check owes
DiagCompletude(a) == {<<"ERRO", "ausente", x[1], x[2]>> : x \in Ausentes(a)}

\* the diagnostic the reachability check owes
DiagAlcancabilidade(a) ==
    IF a.inicial \in a.estados /\ a.estados \ Alcance(a) # {}
    THEN {<<"AVISO", "inalcancaveis", a.inicial, a.estados \ Alcance(a)>>}
    ELSE {}

DiagTodos(a) == DiagConsistencia(a) \cup DiagCompletude(a) \cup DiagAlcancabilidade(a)

\* the check a message belongs to: 1 consistency, 2 completeness, 3 reachability
Etapa(m) == IF m[1] = "AVISO" THEN 3 ELSE IF m[2] = "ausente" THEN 2 ELSE 1

\* the list holds every owed diagnostic, the three checks in their order
RelatorioCompleto ==
    /\ DiagTodos(afd) \subseteq Mensagens
    /\ \A i \in 1..Len(val.mensagens) : \A j \in 1..Len(val.mensagens) :
          i < j => Etapa(val.mensagens[i]) <= Etapa(val.mensagens[j])

\* C13 as stated: for every automaton the list holds every diagnostic of the
\* three checks, in the order consistency, completeness, reachability
C13_Original == Validado => RelatorioCompleto

\* C13: for every automaton that passes the guard of validar_afd, the list holds
\* exactly the diagnostics of the three checks, each once, in the order
\* consistency, completeness, reachability
C13_RelatorioCompleto ==
    (Validado /\ ~Vazio(afd)) =>
        /\ RelatorioCompleto
        /\ Len(val.mensagens) = Cardinality(DiagTodos(afd))

\* one report with a consistency error, a missing transition and the warning
C13_Witness ==
    /\ Validado /\ ~Vazio(afd)
    /\ DiagConsistencia(afd) # {} /\ DiagCompletude(afd) # {} /\ DiagAlcancabilidade(afd) # {}
    /\ Len(val.mensagens) >= 3

(* ---------------- one input, one run ---------------- *)
\* C14: every choice left to the iteration order of a set gives the same
\* outcome: the note on the ignored states has one text, and every pick of
\* representatives builds the same minimized automaton
C14_Puro ==
    /\ pc = "y59" =>
          \A ordem \in Ordens(afd.estados \ estados_alcancaveis) :
              eventos[Len(eventos)] = Info(<<"Estados inalcancaveis ignorados", ordem>>)
    /\ pc \in {"y141", "y142", "fim"} =>
          LET classes == ClassesDeEquivalencia(estados_alcancaveis, marked_pairs)
          IN \A rep \in Representantes(classes) :
                 ConstruirAfd(afd, estados_alcancaveis, classes, rep) = minimized_afd

(* ---------------- the two traversals ---------------- *)
\* _encontrar_estados_alcancaveis has returned
Alcancado == pc \notin {"inicio", "validado", "y47"}
\* validar_afd has returned
ValidadoAntes == val # SemResultado

\* C15 as stated: the helper returns the least set with the initial state closed
\* under the defined transitions on alphabet symbols, empty when the initial state
\* is undeclared; validar_afd returns the same set whenever the initial state is
\* declared; both are sets of declared states
C15_Original ==
    Alcancado =>
        /\ estados_alcancaveis =
              IF afd.inicial \in afd.estados THEN Fecho(afd, {afd.inicial}) ELSE {}
        /\ (ValidadoAntes /\ afd.inicial \in afd.estados) =>
              val.alcancaveis = {estados_alcancaveis}
        /\ estados_alcancaveis \subseteq afd.estados

\* C15: the helper returns the least set with the initial state closed under the
\* defined transitions on alphabet symbols that lead to declared states, empty
\* when the initial state is undeclared; validar_afd returns the same set
\* whenever the initial state is declared and its guard did not fire, and None
\* otherwise; both are sets of declared states
C15_Alcancaveis ==
    Alcancado =>
        /\ estados_alcancaveis = IF afd.inicial \in afd.estados THEN Alcance(afd) ELSE {}
        /\ estados_alcancaveis \subseteq afd.estados
        /\ ValidadoAntes =>
              /\ (afd.inicial \in afd.estados /\ ~Vazio(afd)) =>
                    val.alcancaveis = {estados_alcancaveis}
              /\ (afd.inicial \notin afd.estados \/ Vazio(afd)) => val.alcancaveis = {}
              /\ \A S \in val.alcancaveis : S \subseteq afd.estados

\* both traversals ran on an input whose initial state steps to an undeclared one
C15_Witness ==
    /\ Alcancado /\ ValidadoAntes
    /\ val.alcancaveis = {estados_alcancaveis}
    /\ Fecho(afd, {afd.inicial}) # estados_alcancaveis

(* ---------------- the transitions of a class ---------------- *)
\* the result has been built
Construido == pc \in {"y141", "y142", "fim"}

\* for every class and symbol with a member stepping inside R, every member has a
\* transition on the symbol, the targets share one class, and the result maps to it
ClassesBemDefinidas ==
    \A c \in minimized_afd.estados : \A simbolo \in afd.alfabeto :
        (\E m \in c : Get(afd.transicoes, m, simbolo) \in estados_alcancaveis) =>
            /\ \A m \in c : Get(afd.transicoes, m, simbolo) # None
            /\ c \in DOMAIN minimized_afd.transicoes
            /\ simbolo \in DOMAIN minimized_afd.transicoes[c]
            /\ minimized_afd.transicoes[c][simbolo] \in minimized_afd.estados
            /\ \A m \in c : Get(afd.transicoes, m, simbolo) \in minimized_afd.transicoes[c][simbolo]

\* C16 as stated: in every result the transitions of a class are well defined
C16_Original == Construido => ClassesBemDefinidas

\* C16: in the result for a valid input the transitions of a class are well
\* defined: all members have a transition on each symbol and their targets lie
\* in the one class the minimized automaton maps to
C16_BemDefinidas == (Construido /\ EntradaValida(afd)) => ClassesBemDefinidas

\* a result for a valid input with several classes, one of them with several members
C16_Witness ==
    /\ ResultadoEntregue /\ EntradaValida(afd)
    /\ Cardinality(minimized_afd.estados) >= 2
    /\ \E c \in minimized_afd.estados : Cardinality(c) >= 2

(* ---------------- the classes as a partition ---------------- *)
\* C17: the classes of the result partition the reachable set: none is empty,
\* two distinct classes are disjoint, their union is R, and the initial state of
\* the result is the one class that holds the initial state of the input
C17_Particao ==
    Construido =>
        /\ minimized_afd.estados = ClassesDeEquivalencia(estados_alcancaveis, marked_pairs)
        /\ \A c \in minimized_afd.estados : c # {}
        /\ \A c \in minimized_afd.estados : \A d \in minimized_afd.estados :
              c # d => c \cap d = {}
        /\ UNION minimized_afd.estados = estados_alcancaveis
        /\ minimized_afd.inicial \in minimized_afd.estados
        /\ afd.inicial \in minimized_afd.inicial
        /\ \A c \in minimized_afd.estados : afd.inicial \in c => c = minimized_afd.inicial

\* a result on an incomplete input with several classes, one of them holding
\* three states merged through unmarked pairs
C17_Witness ==
    /\ ResultadoEntregue /\ ~Completo(afd)
    /\ Cardinality(minimized_afd.estados) >= 2
    /\ \E c \in minimized_afd.estados : Cardinality(c) >= 3

(* ---------------- the marking loop ends ---------------- *)
\* the number of unordered pairs of reachable states
NumPares == (Cardinality(estados_alcancaveis) * (Cardinality(estados_alcancaveis) - 1)) \div 2

\* the marked pairs are pairs of reachable states, no more than there are; a
\* pass that goes on brings pairs not marked before, and the pass counter is
\* bounded by the number of pairs
MarcacaoLimitada ==
    /\ marked_pairs \subseteq {{x[1], x[2]} : x \in ParesAlcancaveis}
    /\ Cardinality(marked_pairs) <= NumPares
    /\ pc = "y101" => (newly_marked # {} /\ newly_marked \cap marked_pairs = {})
    /\ pc = "y105" => Cardinality(marked_pairs) >= passo
    /\ pc \in {"y98", "y101", "y105"} => passo <= NumPares + 1

\* the marked set only grows, the update of a pass makes it strictly larger, and
\* a pass that marks nothing leaves the loop
MarcacaoCresce ==
    /\ marked_pairs \subseteq marked_pairs'
    /\ (pc = "y101" /\ pc' = "y105") =>
          Cardinality(marked_pairs') > Cardinality(marked_pairs)
    /\ (pc \in {"y76", "y105"} /\ pc' # pc) =>
          /\ marked_pairs' = marked_pairs
          /\ newly_marked' = {} <=> pc' = "y98"
          /\ newly_marked' # {} <=> pc' = "y101"

\* C18: the marking loop terminates on every input: in every step the marked
\* set only grows, each pass but the last adds a new pair, the set never exceeds
\* the number of pairs of reachable states, which also bounds the pass counter,
\* and a pass that marks nothing ends the loop
C18_Termina == [][MarcacaoCresce /\ MarcacaoLimitada']_vars

\* the loop was left by its third pass, after two marking passes, with pairs
\* still unmarked
C18_Witness ==
    /\ LoopEncerrado /\ passo = 3
    /\ newly_marked = {}
    /\ Cardinality(marked_pairs) < NumPares

(* ---------------- the events of the passes ---------------- *)
\* the pairs a step event carries, as a set
ParesDe(e) == {e.data.pares[i] : i \in 1..Len(e.data.pares)}

\* the positions of the step events
Tabelas == {i \in 1..Len(eventos) : eventos[i].type = "step_table"}
Updates == {i \in 1..Len(eventos) : eventos[i].type = "step_update"}

\* the table of the initial marking has been emitted
NoLaco == Tabelas # {}
Tabela0 == CHOOSE i \in Tabelas : \A k \in Tabelas : i <= k

\* the step events after the table of pass 0 come in pairs: the update of pass j
\* with the new pairs of the pass, then the table of pass j with all the pairs
EventosDosPassos ==
    /\ eventos[Tabela0] = StepTable(0, eventos[Tabela0].data)
    /\ eventos[Tabela0].data.passo = 0
    /\ \A i \in Updates :
          /\ i > Tabela0 /\ (i - Tabela0) % 2 = 1
          /\ eventos[i].pass = (i - Tabela0 + 1) \div 2
          /\ eventos[i].data.passo = eventos[i].pass
          /\ eventos[i - 1].type = "step_table"
          /\ ParesDe(eventos[i]) # {}
          /\ ParesDe(eventos[i]) \cap ParesDe(eventos[i - 1]) = {}
          /\ i < Len(eventos) => eventos[i + 1].type = "step_table"
          /\ i = Len(eventos) =>
                /\ pc = "y101" /\ eventos[i].pass = passo
                /\ ParesDe(eventos[i]) = {TupleOf(par) : par \in newly_marked}
    /\ \A i \in Tabelas \ {Tabela0} :
          /\ (i - Tabela0) % 2 = 0
          /\ eventos[i].pass = (i - Tabela0) \div 2
          /\ eventos[i].data.passo = eventos[i].pass
          /\ eventos[i - 1].type = "step_update"
          /\ ParesDe(eventos[i]) = ParesDe(eventos[i - 2]) \cup ParesDe(eventos[i - 1])
    /\ \A i \in Tabelas :
          (\A k \in Tabelas : k <= i) =>
              ParesDe(eventos[i]) = {TupleOf(par) : par \in marked_pairs}

\* the last pass, which marks nothing, emits one info event and no step event
UltimoPasso ==
    pc \notin {"y76", "y101", "y105"} =>
        /\ Cardinality(Updates) = passo - 1
        /\ Cardinality(Tabelas) = passo
        /\ Tabela0 + 2 * (passo - 1) + 1 <= Len(eventos)
        /\ eventos[Tabela0 + 2 * (passo - 1) + 1] = Info(<<"Nenhuma nova marcacao", passo>>)

\* C19 as stated: once the loop has ended, every pass 1..passo has a step_update
\* event followed by a step_table event, both tagged with its index
C19_Original ==
    LoopEncerrado =>
        \A j \in 1..passo : \E i \in Updates :
            /\ eventos[i].pass = j
            /\ i + 1 \in Tabelas /\ eventos[i + 1].pass = j

\* C19: every pass that marks a pair emits a step_update event with exactly the
\* pairs newly marked in it, followed by a step_table event with all the pairs
\* marked so far, both tagged with the index of the pass, in consecutive order
\* after the table of pass 0; the last pass marks nothing and emits one info event
C19_EventosDosPassos == NoLaco => (EventosDosPassos /\ UltimoPasso)

\* the events of two marking passes and of the last pass are all there
C19_Witness ==
    /\ LoopEncerrado /\ passo = 3
    /\ Cardinality(Updates) = 2 /\ Cardinality(Tabelas) = 3
    /\ eventos[Len(eventos)].type = "info"

(* ---------------- what marks a pair ---------------- *)
\* the unordered pairs of reachable states
ParesDeR == {{x[1], x[2]} : x \in ParesAlcancaveis}

\* the pairs with exactly one accepting member
UmFinal == {par \in ParesDeR : Cardinality(par \cap afd.finais) = 1}

\* the unmarked pairs that some symbol, defined on both members, sends to a
\* pair of the marked set M
LevadosAMarcados(M) ==
    {par \in ParesDeR \ M :
        \E simbolo \in afd.alfabeto :
            /\ \A e \in par : e \in DOMAIN afd.transicoes /\ simbolo \in DOMAIN afd.transicoes[e]
            /\ {afd.transicoes[e][simbolo] : e \in par} \in M}

\* the steps that change the marked set: the initial marking, and the update of
\* a pass with the pairs the pass found from the set at its start
PassoDeMarcacao ==
    /\ (pc = "y68" /\ pc' = "y76") => marked_pairs' = UmFinal
    /\ (pc \in {"y76", "y105"} /\ pc' \in {"y98", "y101"}) =>
          /\ newly_marked' = LevadosAMarcados(marked_pairs)
          /\ marked_pairs' = marked_pairs
    /\ (pc = "y101" /\ pc' = "y105") =>
          marked_pairs' = marked_pairs \cup LevadosAMarcados(marked_pairs)
    /\ (pc \notin {"y68", "y101"}) => marked_pairs' = marked_pairs

\* C20: a pair unmarked at the start of a pass is marked in the pass exactly when
\* some symbol has both transitions defined and leads to a pair marked at the
\* start of the pass; a symbol with a missing transition marks nothing; the only
\* other marking is the initial one, of the pairs with exactly one accepting member
C20_SoPorSimboloDefinido == [][PassoDeMarcacao]_vars

\* after a marking pass on an incomplete input a pair is still unmarked although
\* one member has a transition on a symbol and the other has none
C20_Witness ==
    /\ pc = "y105" /\ passo >= 1
    /\ \E par \in ParesDeR \ marked_pairs : \E simbolo \in afd.alfabeto :
          /\ \E e \in par : Get(afd.transicoes, e, simbolo) \in estados_alcancaveis
          /\ \E e \in par : Get(afd.transicoes, e, simbolo) = None

(* ---------------- acceptance within a class ---------------- *)
\* C21: in every result, for incomplete and inconsistent inputs too, the members
\* of a class are all accepting in the input or none is, and the class is
\* accepting in the result exactly when all of its members are accepting
C21_ClassesHomogeneas ==
    Construido =>
        \A c \in minimized_afd.estados :
            /\ c \subseteq afd.finais \/ c \cap afd.finais = {}
            /\ c \in minimized_afd.finais <=> c \subseteq afd.finais

\* a result on an incomplete input with an accepting class of several members
\* next to a class that is not accepting
C21_Witness ==
    /\ ResultadoEntregue /\ ~Completo(afd)
    /\ \E c \in minimized_afd.finais : Cardinality(c) >= 2
    /\ \E c \in minimized_afd.estados : c \notin minimized_afd.finais

====
